---------------------------- MODULE Spec2Model ----------------------------
(***************************************************************************)
(* A model of ActivityTracker (src/activity-tracker.py): the session loop  *)
(* of start_tracking, the minute loop and the activity loop of             *)
(* simulate_activity_scale, the error counter, the kill switch, the        *)
(* keyboard listener thread, the human state and the activity selector.    *)
(*                                                                         *)
(* Units.  Time is in whole seconds since the tracker was constructed      *)
(* (session_start_time = 0).  fatigue_level and focus_level are in         *)
(* thousandths (1000 is 1.0), so that 0.02 per activity is 20 and the      *)
(* focus floor 0.3 is 300.                                                 *)
(***************************************************************************)
EXTENDS Integers, Sequences, FiniteSets, TLC

VARIABLES
    \* ---- fields of the tracker object
    is_running,                  \* self.is_running
    error_count,                 \* self.error_count
    kill_switch_file,            \* TRUE iff STOP_TRACKER.txt exists
    kill_switch_log,             \* what check_kill_switch printed in this session
    faults,                      \* effector calls that have failed so far
    fatigue_level,               \* self.fatigue_level, thousandths
    focus_level,                 \* self.focus_level, thousandths
    consecutive_active_minutes,  \* self.consecutive_active_minutes
    break_needed,                \* self.break_needed
    activity_history,            \* self.activity_history
    last_activity_type,          \* self.last_activity_type
    repetition_count,            \* self.repetition_count
    candidate_activity,          \* candidate_activity of the latest selection
    total_activities,            \* self.session_analytics['total_activities']
    mistakes_made,               \* self.session_analytics['mistakes_made']
    activity_breakdown,          \* self.session_analytics['activity_breakdown']
    adaptive_weights,            \* self.adaptive_weights, thousandths
    mistake_frequency,           \* self.mistake_frequency, thousandths
    timing_jitter_base,          \* self.timing_jitter_base, thousandths
    micro_delay_signature,       \* self.micro_delay_signature, milliseconds
    jittered_delay,              \* what add_anti_detection_jitter last returned, ms
    \* ---- the frame of main
    main_pc,                     \* position of main, "off" when main is not followed
    argv,                        \* sys.argv[1:]
    hours,                       \* hours of main
    message,                     \* the last message main printed
    prompts,                     \* inputs main has read so far
    \* ---- the clock
    now,                         \* time.time()
    \* ---- the frame of start_tracking
    pc,                          \* position of the simulation thread
    start_time,                  \* start_time of start_tracking
    end_time,                    \* end_time of start_tracking
    current_time,                \* current_time, the logical window clock
    window_count,                \* window_count
    window_end,                  \* window_end
    \* ---- the frame of simulate_activity_scale
    scale,                       \* scale
    scale_end_time,              \* end_time of simulate_activity_scale
    idle_minute_positions,       \* idle_minute_positions (a list)
    minute_num,                  \* minute_num of the for loop
    minute_log,                  \* the minutes the for loop has entered: idle or active
    minute_end,                  \* minute_end
    is_idle_minute,              \* is_idle_minute of the minute in progress
    target_activities,           \* target_activities
    activities_performed,        \* activities_performed
    seconds_used,                \* seconds_used
    max_active_seconds,          \* max_active_seconds
    activity,                    \* activity of the iteration in progress
    activity_start,              \* activity_start
    activity_weights,            \* activity_weights of the minute, thousandths
    \* ---- the listener threads, one per start_tracking call
    listener,
    \* ---- the latest operation on the human state, kept for SpecBreaks
    human_op,
    \* ---- what an observer of the session sees
    sessions,                    \* number of start_tracking calls so far
    emitted,                     \* session-end output of the current session
    window_durations             \* the Duration line printed for each window, in seconds

trackerVars  == <<is_running, error_count, kill_switch_file, kill_switch_log, faults>>
humanVars    == <<fatigue_level, focus_level, consecutive_active_minutes, break_needed>>
selectorVars == <<activity_history, last_activity_type, repetition_count,
                  candidate_activity>>
metricVars   == <<total_activities, mistakes_made, activity_breakdown, adaptive_weights>>
timingVars   == <<timing_jitter_base, micro_delay_signature, jittered_delay,
                  mistake_frequency>>
mainVars     == <<main_pc, argv, hours, message, prompts>>
sessionVars  == <<pc, start_time, end_time, current_time, window_count, window_end,
                  sessions, emitted, window_durations>>
windowVars   == <<scale, scale_end_time, idle_minute_positions, minute_num, minute_log>>
minuteVars   == <<minute_end, is_idle_minute, target_activities, activities_performed,
                  seconds_used, max_active_seconds, activity, activity_start,
                  activity_weights>>

vars == <<trackerVars, humanVars, selectorVars, metricVars, timingVars, mainVars, now,
          sessionVars,
          windowVars, minuteVars, listener, human_op>>

---------------------------------------------------------------------------
\* Program constants

max_errors == 100
pattern_detection_threshold == 3
HistoryLimit == 10
MinutesPerWindow == 10
MinuteSeconds == 60
WindowSeconds == 600
\* debug_main: window_count < 5
DebugWindowLimit == 5

all_activities ==
    <<"mouse_movement", "mouse_click", "navigation", "tab_switching",
      "scroll_wheel", "text_selection", "copy_paste", "hover_behavior">>

Categories == {all_activities[i] : i \in 1..Len(all_activities)}

NoActivity == "None"

---------------------------------------------------------------------------
\* Bounds of the model

\* random.choices and random.choice draw among the first DrawnCategories
\* categories of all_activities
DrawnCategories == 2
\* repetition_count is followed up to this value
MaxRepetition == 5
\* consecutive_active_minutes is followed up to this value
MaxConsecutive == 11
\* the clock of the human-state specification advances up to this many hours
MaxHours == 9

\* start_tracking is called at most this many times on the tracker
MaxSessions == 2
\* the tracker is taken fresh, or after earlier sessions on it left
\* error_count at most ErrHeadroom short of max_errors
ErrHeadroom == 1
\* at most this many effector calls fail
MaxFaults == 2
\* at most this many mistakes are simulated in a session
MaxMistakes == 1
\* random.sample draws the idle minutes among minutes 0..MaxIdlePosition
MaxIdlePosition == 2

\* the longest session of the window specification has this many windows
\* more than debug_main's limit
LongSessionExtra == 0

\* consecutive_active_minutes is followed up to this value in SpecBreaks
MaxBreakMinutes == 92
\* main reads at most this many inputs in interactive mode
MaxPrompts == 2
\* adaptive_learning is followed this many times
MaxLearnings == 3
\* adaptive_learning runs followed in SpecLearning
MaxAdaptations == 7

Lowest(S) == CHOOSE x \in S : \A y \in S : x <= y
Highest(S) == CHOOSE x \in S : \A y \in S : x >= y

Min(a, b) == IF a < b THEN a ELSE b
Max(a, b) == IF a > b THEN a ELSE b

DrawCats == {all_activities[i] : i \in 1..Min(DrawnCategories, Len(all_activities))}

---------------------------------------------------------------------------
\* The activity selector: avoid_repetitive_patterns and the history

TrimHistory_Late(history) ==
    IF Len(history) > HistoryLimit THEN Tail(history) ELSE history

\* activity_history.pop(0) once the list holds 10 entries
TrimHistory(history) ==
    IF Len(history) >= HistoryLimit THEN Tail(history) ELSE history

\* repetition_count after the comparison with last_activity_type
RepetitionAfter(candidate, last, rep) ==
    IF candidate = last THEN rep + 1 ELSE 0

ForcesSubstitute_OffByOne(rep) == rep > pattern_detection_threshold

\* the test that forces a different activity
ForcesSubstitute(rep) == rep >= pattern_detection_threshold

\* different_activities: every category but the candidate
different_activities(candidate) == {a \in Categories : a # candidate}

\* what avoid_repetitive_patterns returns; new_activity is random.choice's draw
ChosenActivity(candidate, new_activity, rep) ==
    IF ForcesSubstitute(rep) /\ different_activities(candidate) # {}
    THEN new_activity
    ELSE candidate

\* One selection: avoid_repetitive_patterns(candidate), then the caller's
\* append to the history and update of last_activity_type.
SelectActivity(candidate, new_activity) ==
    LET rep == RepetitionAfter(candidate, last_activity_type, repetition_count)
        chosen == ChosenActivity(candidate, new_activity, rep)
    IN  /\ new_activity \in different_activities(candidate)
        /\ rep <= MaxRepetition
        /\ candidate_activity' = candidate
        /\ repetition_count' = rep
        /\ activity_history' = Append(TrimHistory(activity_history), chosen)
        /\ last_activity_type' = chosen

---------------------------------------------------------------------------
\* The human state: update_human_state and simulate_micro_break

FocusVariations == {-200, 0, 200}              \* random.uniform(-0.2, 0.2)
BreakThresholds == {45, 90}                     \* random.randint(45, 90)
Hours == {8, 9, 11, 12, 13, 15, 16, 18, 19}     \* datetime.now().hour
BreakDurations == {5, 21, 30}                   \* random.uniform(5, 30)

\* base_fatigue: 0.1 per hour of session, at most 0.8
BaseFatigue(elapsed) == Min((elapsed * 1000) \div 36000, 800)

FatigueAfter_Unclamped(elapsed, cam) == BaseFatigue(elapsed) + cam * 20

FatigueAfter_Recovering(elapsed, cam) == Max(0, BaseFatigue(elapsed) - cam * 20)

\* fatigue_level after update_human_state
FatigueAfter(elapsed, cam) == Min(BaseFatigue(elapsed) + cam * 20, 1000)

\* focus_level after the clamp to [0.3, 1.0]
ClampedFocus(fatigue, variation) ==
    Max(300, Min(1000, (1000 - fatigue \div 2) + variation))

\* the time-based focus patterns
TimeOfDayFocus(focus, hour) ==
    IF 9 <= hour /\ hour <= 11 THEN (focus * 12) \div 10
    ELSE IF 13 <= hour /\ hour <= 15 THEN (focus * 8) \div 10
    ELSE IF 16 <= hour /\ hour <= 18 THEN (focus * 11) \div 10
    ELSE focus

\* focus_level after update_human_state
FocusAfter(fatigue, variation, hour) ==
    Min(1000, TimeOfDayFocus(ClampedFocus(fatigue, variation), hour))

update_human_state(variation, threshold, hour) ==
    LET fatigue == FatigueAfter(now, consecutive_active_minutes)
    IN  /\ fatigue_level' = fatigue
        /\ focus_level' = FocusAfter(fatigue, variation, hour)
        /\ break_needed' = (break_needed \/ consecutive_active_minutes > threshold)
        /\ UNCHANGED consecutive_active_minutes

\* simulate_micro_break, for a break of break_duration seconds
FocusAfterBreak(focus) == Min(1000, focus + 100)

ConsecutiveAfterBreak(cam, break_duration) ==
    IF break_duration > 20 THEN Max(0, cam - 5) ELSE cam

BreakNeededAfterBreak(needed, break_duration) ==
    IF break_duration > 20 THEN FALSE ELSE needed

\* simulate_micro_break; the caller advances the clock.  When is_running
\* is false it returns at once.
simulate_micro_break(break_duration) ==
    IF ~is_running
    THEN UNCHANGED humanVars
    ELSE /\ focus_level' = FocusAfterBreak(focus_level)
         /\ consecutive_active_minutes' =
                ConsecutiveAfterBreak(consecutive_active_minutes, break_duration)
         /\ break_needed' = BreakNeededAfterBreak(break_needed, break_duration)
         /\ UNCHANGED fatigue_level

---------------------------------------------------------------------------
\* Timing: delays in milliseconds, factors in thousandths

BaseDelays == {0, 300, 5000}                   \* base_delay >= 0
MuscleMemory == {950, 1050}                     \* random.uniform(0.95, 1.05)
Inconsistency == {500, 1000, 2000}              \* 1.0, or random.uniform(0.5, 2.0)
\* adaptive_learning: *= uniform(1.1, 1.3), *= uniform(0.8, 0.9), or nothing
RescaleFactors == {800, 900, 1000, 1100, 1300}

\* base_delay * signature_multiplier * muscle_memory_variation *
\* inconsistency_factor, the product taken factor by factor
JitterProduct(base_delay, signature, muscle, inconsistency) ==
    (((((base_delay * signature) \div 1000) * muscle) \div 1000) * inconsistency) \div 1000

add_anti_detection_jitter_WithoutSignature(base_delay, signature, muscle, inconsistency, micro) ==
    JitterProduct(base_delay, signature, muscle, inconsistency)

\* add_anti_detection_jitter(base_delay) under the tracker's signature and
\* the two random factors it draws
add_anti_detection_jitter(base_delay, signature, muscle, inconsistency, micro) ==
    Max(10, JitterProduct(base_delay, signature, muscle, inconsistency) + micro)

\* timing_jitter_base *= factor
Rescaled(base, factor) == (base * factor) \div 1000

\* adaptive_learning runs when total_activities is a multiple of 20
LearningDue(total) == total % 20 = 0 /\ total >= 10

\* timing_score = max(0, 1.0 - timing_variance / 2.0), thousandths
TimingScores == {0, 500, 1000}

\* mistake_score = min(1.0, mistakes_made / max(1, total_activities * 0.05))
MistakeScore(mistakes, total) == Min(1000, (mistakes * 20000) \div Max(20, total))

\* human_likeness_score after update_performance_metrics
HumanLikeness(timing_score, mistakes, total) ==
    (timing_score + MistakeScore(mistakes, total)) \div 2

LearningFactors_Never(human_likeness) == {1000}

\* the factor adaptive_learning applies to timing_jitter_base
LearningFactors(human_likeness) ==
    IF human_likeness < 600 THEN {1100, 1300}
    ELSE IF human_likeness > 900 THEN {800, 900}
    ELSE {1000}

\* random.uniform(1.2, 1.5), random.uniform(0.7, 0.9): the factors of
\* mistake_frequency
MistakeRescaleFactors == {700, 900, 1000, 1200, 1500}

MistakeFactors(human_likeness) ==
    IF human_likeness < 600 THEN {1200, 1500}
    ELSE IF human_likeness > 900 THEN {700, 900}
    ELSE {1000}

\* analyze_activity_patterns: the last ten entries of the history
recent_activities(history) ==
    SubSeq(history, Max(1, Len(history) - 9), Len(history))

\* activity_counts[c]
ActivityCount(history, c) ==
    Cardinality({i \in 1..Len(recent_activities(history)) :
                    recent_activities(history)[i] = c})

\* the categories with max_count > 6; none when fewer than 5 are recorded
DominantActivities(history) ==
    IF Len(history) < 5 THEN {}
    ELSE {c \in Categories : ActivityCount(history, c) > 6}

Discounted_Half(weight) == weight \div 2

\* adaptive_weights[dominant_activity] *= 0.8
Discounted(weight) == (weight * 8) \div 10

analyze_activity_patterns(weights, history) ==
    IF DominantActivities(history) = {} THEN weights
    ELSE LET dominant_activity == CHOOSE c \in DominantActivities(history) : TRUE
         IN  [weights EXCEPT ![dominant_activity] = Discounted(@)]

\* get_intelligence_adjusted_weights: base_weights[i] * adaptive_multiplier
get_intelligence_adjusted_weights(base_weights, multipliers) ==
    [c \in Categories |-> (base_weights[c] * multipliers[c]) \div 1000]

---------------------------------------------------------------------------
\* The tracker after __init__

InitJitterBase == {800, 1200}                    \* random.uniform(0.8, 1.2)
MicroDelays == {20, 80}                         \* random.uniform(0.02, 0.08)
InitFocus == {700, 1000}                        \* random.uniform(0.7, 1.0)
InitMistakeFrequency == {20, 80}                \* random.uniform(0.02, 0.08)

\* initialize_analytics: no activity counted, every multiplier 1.0
NoBreakdown == [c \in Categories |-> 0]
InitialWeights == [c \in Categories |-> 1000]

\* no weight vector: outside an active minute
NoWeights == [c \in Categories |-> 0]

InitFields ==
    /\ error_count \in {0} \cup ((max_errors - ErrHeadroom)..max_errors)
    /\ kill_switch_file = FALSE
    /\ kill_switch_log = <<>>
    /\ faults = 0
    /\ fatigue_level = 0
    /\ focus_level \in InitFocus
    /\ consecutive_active_minutes = 0
    /\ break_needed = FALSE
    /\ activity_history = <<>>
    /\ last_activity_type = NoActivity
    /\ repetition_count = 0
    /\ candidate_activity = NoActivity
    /\ total_activities = 0
    /\ mistakes_made = 0
    /\ activity_breakdown = NoBreakdown
    /\ adaptive_weights = InitialWeights
    /\ now = 0

\* no operation on the human state has been recorded
NoOp == [op |-> "none", n |-> 0, at |-> 0, tick |-> 0]

InitFrames ==
    /\ pc = "idle"
    /\ human_op = NoOp
    /\ start_time = 0
    /\ end_time = 0
    /\ current_time = 0
    /\ window_count = 0
    /\ window_end = 0
    /\ scale = 0
    /\ scale_end_time = 0
    /\ idle_minute_positions = <<>>
    /\ minute_num = 0
    /\ minute_log = <<>>
    /\ minute_end = 0
    /\ is_idle_minute = FALSE
    /\ target_activities = 0
    /\ activities_performed = 0
    /\ seconds_used = 0
    /\ max_active_seconds = 0
    /\ activity = NoActivity
    /\ activity_start = 0
    /\ activity_weights = NoWeights
    /\ listener = <<>>
    /\ sessions = 0
    /\ emitted = <<>>
    /\ window_durations = <<>>

\* the timing signature of the tracker, drawn in __init__
InitSignature(bases, micros, frequencies) ==
    /\ timing_jitter_base \in bases
    /\ micro_delay_signature \in micros
    /\ mistake_frequency \in frequencies
    /\ jittered_delay = 0

\* the session specifications follow one timing signature
OneSignature ==
    InitSignature({Lowest(InitJitterBase)}, {Lowest(MicroDelays)},
                  {Highest(InitMistakeFrequency)})

\* a float: finite (v in hundredths), nan, inf or -inf; NoHours: not assigned
Float(class, v) == [class |-> class, v |-> v]
NoHours == Float("none", 0)

\* main is not followed: the tracker is used directly
NoMain ==
    /\ main_pc = "off"
    /\ argv = <<>>
    /\ hours = NoHours
    /\ message = ""
    /\ prompts = 0

Init == is_running = FALSE /\ InitFields /\ InitFrames /\ OneSignature /\ NoMain

---------------------------------------------------------------------------
\* Errors and the kill switch

\* error_count after handle_error was called n times
ErrorCountAfter(count, n) == count + n

RunningAfterErrors_NeverStops(running, count) == running

\* is_running after handle_error left error_count at count
RunningAfterErrors(running, count) ==
    IF count >= max_errors THEN FALSE ELSE running

\* handle_error called n times in a row (n = 0: not called).  Its one-second
\* recovery sleep is part of the duration the caller draws.
handle_error(n) ==
    LET count == ErrorCountAfter(error_count, n)
    IN  /\ error_count' = IF n = 0 THEN error_count ELSE count
        /\ is_running' = IF n = 0 THEN is_running
                         ELSE RunningAfterErrors(is_running, count)

HandleErrorContinues_Always(count) == TRUE

\* what handle_error returns
HandleErrorContinues(count) == count < max_errors

\* simple_activity_tracker's handler of a window's exception:
\* error_count += 1, and break once error_count >= max_errors
SimpleErrorCount(count) == count + 1
SimpleContinues(count) == ~(SimpleErrorCount(count) >= max_errors)

\* check_kill_switch when the marker exists: is_running is cleared and
\* os.remove either removes the marker or fails
check_kill_switch_KeepsRunning(removed) ==
    /\ kill_switch_file
    /\ is_running' = is_running
    /\ kill_switch_file' = ~removed
    /\ kill_switch_log' = Append(kill_switch_log, IF removed THEN "removed"
                                                           ELSE "kept")
    /\ UNCHANGED error_count

check_kill_switch(removed) ==
    /\ kill_switch_file
    /\ is_running' = FALSE
    /\ kill_switch_file' = ~removed
    /\ kill_switch_log' = Append(kill_switch_log, IF removed THEN "removed"
                                                           ELSE "kept")
    /\ UNCHANGED error_count

---------------------------------------------------------------------------
\* The simulators, seen from the activity loop

\* simulators whose body runs inside try/except and reports to handle_error
HandlesOwnErrors ==
    {"mouse_movement", "scroll_wheel", "text_selection", "copy_paste",
     "hover_behavior"}

\* how many errors one call of the simulator can hand to handle_error:
\* copy_paste calls simulate_text_selection inside its own try;
\* tab_switching handles the errors of click_on_tab and close_random_tab
HandledErrors(act) ==
    IF act = "copy_paste" THEN 0..2
    ELSE IF act \in HandlesOwnErrors \/ act = "tab_switching" THEN 0..1
    ELSE {0}

\* simulators with effector calls outside any try/except
MayRaise(act) == act \in {"mouse_click", "navigation", "tab_switching"}

---------------------------------------------------------------------------
\* Random draws of a window and of a minute

\* random.sample(all_minutes, k): the lists of k distinct minutes, here
\* among the first MaxIdlePosition + 1 minutes of the window
RECURSIVE RandomSample(_, _)
RandomSample(pool, k) ==
    IF k = 0 THEN {<<>>}
    ELSE UNION {{<<m>> \o rest : rest \in RandomSample(pool \ {m}, k - 1)} : m \in pool}

IdleMinutesOf_OffByOne(activity_scale) == MinutesPerWindow - activity_scale - 1

\* idle_minutes = 10 - scale
IdleMinutesOf(activity_scale) == MinutesPerWindow - activity_scale

Range(seq) == {seq[i] : i \in 1..Len(seq)}

IsIdleMinute_OffByOne(minute, positions) == (minute + 1) \in Range(positions)

\* is_idle_minute = minute_num in idle_minute_positions
IsIdleMinute(minute, positions) == minute \in Range(positions)

\* target_activities: randint(randint(a, b), randint(c, d))
TargetRange_Wide(activity_scale) ==
    IF activity_scale = 7 THEN <<17, 25, 33, 47>>
    ELSE IF activity_scale = 8 THEN <<33, 47, 47, 55>>
    ELSE <<47, 55, 65, 75>>

TargetRange(activity_scale) ==
    IF activity_scale = 7 THEN <<17, 25, 33, 40>>
    ELSE IF activity_scale = 8 THEN <<33, 47, 47, 55>>
    ELSE <<47, 55, 65, 75>>

TargetActivities(activity_scale) ==
    LET r == TargetRange(activity_scale)
    IN  UNION {lo..hi : lo \in r[1]..r[2], hi \in r[3]..r[4]}

\* base_active_seconds: randint(50, 58), randint(35, 50) or randint(20, 40)
BaseActiveSeconds == {20, 35, 50, 58}

\* max_active_seconds = int(base_active_seconds * focus_level)
MaxActiveSeconds(base_active_seconds, focus) == (base_active_seconds * focus) \div 1000

LoopCondition_NoTarget(used, budget, clock, deadline, running, performed, target) ==
    used < budget /\ clock < deadline /\ running

LoopCondition_NoBudget(used, budget, clock, deadline, running, performed, target) ==
    clock < deadline /\ running /\ performed < target

LoopCondition_NoRunning(used, budget, clock, deadline, running, performed, target) ==
    used < budget /\ clock < deadline /\ performed < target

\* the condition of the activity loop
LoopCondition(used, budget, clock, deadline, running, performed, target) ==
    used < budget /\ clock < deadline /\ running /\ performed < target

---------------------------------------------------------------------------
\* The operations of a session.  Each takes the record of the sets its
\* random draws and its environment's answers are taken from:
\*   calls       how many times start_tracking is called on the tracker
\*   durations   duration_hours * 3600 of start_tracking
\*   scales      which outcomes of random.randint(7, 9) are taken
\*   errors      how many effector calls of a simulator may fail
\*   candidates  random.choices over the activity weights
\*   substitutes random.choice(different_activities)
\*   targets     which of the outcomes of the target draw are taken
\*   variations  random.uniform(-0.2, 0.2) of update_human_state
\*   thresholds  random.randint(45, 90) of update_human_state
\*   hours       datetime.now().hour
\*   bases       base_active_seconds
\*   spent       seconds spent inside a simulator
\*   mistakes    whether random.random() < mistake_frequency
\*   interruptions  micro-break of an interruption, 0 for none
\*   breaks      whether should_take_break answers yes
\*   pauses      random.uniform(2, 5) between windows
\*   delays      the delay between two activities and the factors of its jitter
\*   rescales    the factor adaptive_learning applies to timing_jitter_base
\*   timing_scores  timing_score of update_performance_metrics

InTry == {"window_check", "minute_check", "loop_check", "loop_body",
          "after_activity", "minute_finish", "window_end"}

\* the locals of simulate_activity_scale's minute are gone
NoMinuteFrame ==
    /\ minute_end' = 0
    /\ is_idle_minute' = FALSE
    /\ target_activities' = 0
    /\ activities_performed' = 0
    /\ seconds_used' = 0
    /\ max_active_seconds' = 0
    /\ activity' = NoActivity
    /\ activity_start' = 0
    /\ activity_weights' = NoWeights

\* the locals of simulate_activity_scale are gone
NoWindowFrame ==
    /\ scale' = 0
    /\ scale_end_time' = 0
    /\ idle_minute_positions' = <<>>
    /\ minute_num' = 0
    /\ minute_log' = <<>>
    /\ NoMinuteFrame

\* debug_main's dry run of the window loop: the window durations it prints
RECURSIVE DebugWindows(_, _, _)
DebugWindows(current, finish, count) ==
    IF current < finish /\ count < DebugWindowLimit
    THEN LET window_end_ == Min(current + 600, finish)
         IN  <<window_end_ - current>> \o DebugWindows(window_end_, finish, count + 1)
    ELSE <<>>

WindowEndAt_Stalled(current, finish) == current

WindowEndAt_Untruncated(current, finish) == current + WindowSeconds

\* window_end = min(current_time + 600, end_time)
WindowEndAt(current, finish) == Min(current + WindowSeconds, finish)

\* start_tracking up to the window loop
StartTrackingOf(in) ==
    \E duration \in in.durations :
        /\ pc = "idle"
        /\ sessions < in.calls
        /\ is_running' = TRUE
        /\ start_time' = now
        /\ end_time' = now + duration
        /\ total_activities' = 0
        /\ mistakes_made' = 0
        /\ activity_breakdown' = NoBreakdown
        /\ adaptive_weights' = InitialWeights
        /\ listener' = Append(listener, "polling")
        /\ current_time' = now
        /\ window_count' = 0
        /\ sessions' = sessions + 1
        /\ emitted' = <<>>
        /\ kill_switch_log' = <<>>
        /\ window_durations' = <<>>
        /\ pc' = "window_check"
        /\ UNCHANGED <<error_count, kill_switch_file, faults, humanVars, selectorVars,
                       timingVars, mainVars, human_op, now, window_end, windowVars, minuteVars>>

\* the window loop's condition fails: leave the loop
WindowLoopExit ==
    /\ pc = "window_check"
    /\ ~(current_time < end_time /\ is_running)
    /\ pc' = "stop"
    /\ UNCHANGED <<trackerVars, humanVars, selectorVars, metricVars, now, start_time, end_time,
                   current_time, window_count, window_end, sessions, timingVars, mainVars, human_op, emitted, window_durations,
                   windowVars, minuteVars, listener>>

\* the kill switch is found at the start of a window
WindowKillSwitch ==
    \E removed \in BOOLEAN :
        /\ pc = "window_check"
        /\ current_time < end_time /\ is_running
        /\ check_kill_switch(removed)
        /\ pc' = "stop"
        /\ UNCHANGED <<faults, humanVars, selectorVars, metricVars, now, start_time, end_time,
                       current_time, window_count, window_end, sessions, emitted, timingVars, mainVars, human_op, window_durations,
                       windowVars, minuteVars, listener>>

\* a window starts: the scale is drawn and simulate_activity_scale is
\* entered, up to its for loop
WindowStartOf(in) ==
    \E activity_scale \in (7..9) \cap in.scales :
    \E sample \in RandomSample(0..MaxIdlePosition, IdleMinutesOf(activity_scale)) :
        /\ pc = "window_check"
        /\ current_time < end_time /\ is_running
        /\ ~kill_switch_file
        /\ window_count' = window_count + 1
        /\ window_end' = WindowEndAt(current_time, end_time)
        /\ scale' = activity_scale
        /\ scale_end_time' = now + (window_end' - current_time)
        /\ idle_minute_positions' = sample
        /\ minute_num' = 0
        /\ minute_log' = <<>>
        /\ window_durations' = Append(window_durations, window_end' - current_time)
        /\ pc' = "minute_check"
        /\ UNCHANGED <<trackerVars, humanVars, selectorVars, metricVars, now, start_time, end_time,
                       current_time, sessions, timingVars, mainVars, human_op, emitted, minuteVars, listener>>

\* the for loop of simulate_activity_scale ends, or breaks because
\* is_running is false: simulate_activity_scale returns
WindowReturn ==
    /\ pc = "minute_check"
    /\ minute_num >= MinutesPerWindow \/ ~is_running
    /\ pc' = "window_end"
    /\ NoWindowFrame
    /\ UNCHANGED <<trackerVars, humanVars, selectorVars, metricVars, now, start_time, end_time,
                   current_time, window_count, window_end, sessions, timingVars, mainVars, human_op, emitted, window_durations,
                   listener>>

\* the kill switch is found at the start of a minute
MinuteKillSwitch ==
    \E removed \in BOOLEAN :
        /\ pc = "minute_check"
        /\ minute_num < MinutesPerWindow /\ is_running
        /\ check_kill_switch(removed)
        /\ pc' = "window_end"
        /\ NoWindowFrame
        /\ UNCHANGED <<faults, humanVars, selectorVars, metricVars, now, start_time, end_time,
                       current_time, window_count, window_end, sessions, emitted, timingVars, mainVars, human_op, window_durations,
                       listener>>

\* an idle minute: time.sleep(60), then the next minute
IdleMinute ==
    /\ pc = "minute_check"
    /\ minute_num < MinutesPerWindow /\ is_running
    /\ ~kill_switch_file
    /\ IsIdleMinute(minute_num, idle_minute_positions)
    /\ now' = now + MinuteSeconds
    /\ minute_num' = minute_num + 1
    /\ minute_log' = Append(minute_log, "idle")
    /\ NoMinuteFrame
    /\ UNCHANGED <<trackerVars, humanVars, selectorVars, metricVars, sessionVars, timingVars, mainVars, human_op,
                   scale, scale_end_time, idle_minute_positions, listener>>

\* an active minute up to its activity loop
ActiveMinuteOf(in) ==
    /\ pc = "minute_check"
    /\ minute_num < MinutesPerWindow /\ is_running
    /\ ~kill_switch_file
    /\ ~IsIdleMinute(minute_num, idle_minute_positions)
    /\ \E target \in in.targets[scale], variation \in in.variations,
          threshold \in in.thresholds, hour \in in.hours,
          base_active_seconds \in in.bases, weight \in in.weights :
        /\ minute_end' = Min(now + MinuteSeconds, scale_end_time)
        /\ is_idle_minute' = FALSE
        /\ minute_log' = Append(minute_log, "active")
        /\ target_activities' = target
        /\ activities_performed' = 0
        /\ update_human_state(variation, threshold, hour)
        /\ seconds_used' = 0
        /\ max_active_seconds' = MaxActiveSeconds(base_active_seconds, focus_level')
        /\ activity_weights' =
               get_intelligence_adjusted_weights([c \in Categories |-> weight],
                                                 adaptive_weights)
        /\ pc' = "loop_check"
        /\ UNCHANGED <<trackerVars, selectorVars, metricVars, now, start_time, end_time,
                       current_time, window_count, window_end, sessions, timingVars, mainVars, human_op, emitted, window_durations,
                       scale, scale_end_time, idle_minute_positions, minute_num,
                       activity, activity_start, listener>>

\* the condition of the activity loop is evaluated
LoopCheck ==
    /\ pc = "loop_check"
    /\ pc' = IF LoopCondition(seconds_used, max_active_seconds, now, minute_end,
                              is_running, activities_performed, target_activities)
             THEN "loop_body" ELSE "minute_finish"
    /\ UNCHANGED <<trackerVars, humanVars, selectorVars, metricVars, now, start_time, end_time,
                   current_time, window_count, window_end, sessions, timingVars, mainVars, human_op, emitted, window_durations,
                   windowVars, minuteVars, listener>>

\* the kill switch is found inside the activity loop: break
LoopKillSwitch ==
    \E removed \in BOOLEAN :
        /\ pc = "loop_body"
        /\ check_kill_switch(removed)
        /\ pc' = "minute_finish"
        /\ UNCHANGED <<faults, humanVars, selectorVars, metricVars, now, start_time, end_time,
                       current_time, window_count, window_end, sessions, emitted, timingVars, mainVars, human_op, window_durations,
                       windowVars, minuteVars, listener>>

\* one iteration of the activity loop from the selection to the return of
\* the simulator, n of whose effector calls fail inside a try/except.  A
\* simulator called with is_running false returns at once.
DispatchOf(in) ==
    \E candidate \in in.candidates, new_activity \in in.substitutes :
    LET chosen == ChosenActivity(candidate, new_activity,
                      RepetitionAfter(candidate, last_activity_type, repetition_count))
    IN  \E d \in in.spent \cup {0}, n \in HandledErrors(chosen) \cap in.errors :
        /\ pc = "loop_body"
        /\ ~kill_switch_file
        /\ SelectActivity(candidate, new_activity)
        /\ activity' = chosen
        /\ activities_performed' = activities_performed + 1
        /\ activity_start' = now
        /\ IF is_running THEN d \in in.spent ELSE d = 0 /\ n = 0
        /\ faults + n <= MaxFaults
        /\ faults' = faults + n
        /\ now' = now + d
        /\ handle_error(n)
        /\ pc' = "after_activity"
        /\ UNCHANGED <<kill_switch_file, kill_switch_log, humanVars, metricVars, start_time, end_time,
                       current_time, window_count, window_end, sessions, timingVars, mainVars, human_op, emitted, window_durations,
                       windowVars, minute_end, is_idle_minute, target_activities,
                       seconds_used, max_active_seconds, activity_weights, listener>>

\* the same iteration when an effector call outside any try/except raises:
\* the exception leaves simulate_activity_scale and start_tracking hands it
\* to handle_error, then goes on after the window or leaves the loop
DispatchRaisesOf(in) ==
    \E candidate \in in.candidates, new_activity \in in.substitutes :
    LET chosen == ChosenActivity(candidate, new_activity,
                      RepetitionAfter(candidate, last_activity_type, repetition_count))
    IN  \E d \in in.spent, n \in HandledErrors(chosen) \cap in.errors :
        /\ pc = "loop_body"
        /\ ~kill_switch_file
        /\ is_running
        /\ MayRaise(chosen)
        /\ in.errors # {0}
        /\ SelectActivity(candidate, new_activity)
        /\ faults + n + 1 <= MaxFaults
        /\ faults' = faults + n + 1
        /\ now' = now + d
        /\ handle_error(n + 1)
        /\ pc' = IF HandleErrorContinues(error_count') THEN "window_end" ELSE "stop"
        /\ NoWindowFrame
        /\ UNCHANGED <<kill_switch_file, kill_switch_log, humanVars, metricVars, start_time, end_time,
                       current_time, window_count, window_end, sessions, timingVars, mainVars, human_op, emitted, window_durations,
                       listener>>

\* the rest of the iteration: the mistake, the interruption with its
\* micro-break, the counters
AfterActivityOf(in) ==
    \E mistake \in in.mistakes, mistake_errors \in (0..1) \cap in.errors,
       break_duration \in in.interruptions, delay \in in.delays,
       factor \in in.rescales, timing_score \in in.timing_scores,
       mistake_factor \in in.mistake_rescales :
    LET running == IF mistake_errors = 0 THEN is_running
                   ELSE RunningAfterErrors(is_running,
                            ErrorCountAfter(error_count, mistake_errors))
        broke == IF running THEN break_duration ELSE 0
        clock == now + broke
    IN  /\ pc = "after_activity"
        /\ mistake_errors = 1 => (mistake /\ is_running)
        /\ break_duration > 0 => running
        /\ mistake => mistakes_made < MaxMistakes
        /\ faults + mistake_errors <= MaxFaults
        /\ faults' = faults + mistake_errors
        /\ handle_error(mistake_errors)
        /\ mistakes_made' = mistakes_made + (IF mistake THEN 1 ELSE 0)
        /\ focus_level' = IF broke > 0 THEN FocusAfterBreak(focus_level) ELSE focus_level
        /\ break_needed' = BreakNeededAfterBreak(break_needed, broke)
        /\ consecutive_active_minutes' =
               ConsecutiveAfterBreak(consecutive_active_minutes, broke) + 1
        /\ total_activities' = total_activities + 1
        /\ activity_breakdown' = [activity_breakdown EXCEPT ![activity] = @ + 1]
        /\ seconds_used' = seconds_used + (clock - activity_start)
        /\ jittered_delay' =
               IF seconds_used' < max_active_seconds
                  /\ activities_performed < target_activities
               THEN add_anti_detection_jitter(delay.base, timing_jitter_base,
                        delay.muscle, delay.inconsistency, micro_delay_signature)
               ELSE jittered_delay
        /\ timing_jitter_base' =
               IF LearningDue(total_activities')
               THEN Rescaled(timing_jitter_base, factor)
               ELSE timing_jitter_base
        /\ mistake_frequency' =
               IF LearningDue(total_activities')
               THEN Rescaled(mistake_frequency, mistake_factor)
               ELSE mistake_frequency
        /\ adaptive_weights' =
               IF LearningDue(total_activities')
               THEN analyze_activity_patterns(adaptive_weights, activity_history)
               ELSE adaptive_weights
        /\ ~LearningDue(total_activities')
               => factor = 1000 /\ timing_score = 0 /\ mistake_factor = 1000
        /\ LearningDue(total_activities')
               => LET human_likeness == HumanLikeness(timing_score, mistakes_made',
                                                      total_activities')
                  IN  /\ factor \in LearningFactors(human_likeness)
                      /\ mistake_factor \in MistakeFactors(human_likeness)
        /\ UNCHANGED <<micro_delay_signature, mainVars, human_op>>
        /\ now' = clock
        /\ pc' = "loop_check"
        /\ UNCHANGED <<kill_switch_file, kill_switch_log, fatigue_level, selectorVars, start_time, end_time,
                       current_time, window_count, window_end, sessions, emitted, window_durations,
                       windowVars, minute_end, is_idle_minute, target_activities,
                       activities_performed, max_active_seconds, activity,
                       activity_start, activity_weights, listener>>

\* after the loop: the micro-break if one is due, then the sleep to the
\* minute's boundary
MinuteFinishOf(in) ==
    \E take_break \in in.breaks, break_duration \in BreakDurations :
    LET broke == IF take_break /\ is_running THEN break_duration ELSE 0
        clock == now + broke
    IN  /\ pc = "minute_finish"
        /\ break_needed => take_break
        /\ IF take_break
           THEN simulate_micro_break(break_duration)
           ELSE UNCHANGED humanVars
        /\ now' = IF minute_end - clock > 0 THEN minute_end ELSE clock
        /\ minute_num' = minute_num + 1
        /\ pc' = "minute_check"
        /\ NoMinuteFrame
        /\ UNCHANGED <<trackerVars, selectorVars, metricVars, start_time, end_time,
                       current_time, window_count, window_end, sessions, timingVars, mainVars, human_op, emitted, window_durations,
                       scale, scale_end_time, idle_minute_positions, minute_log, listener>>

WindowEndOf_NoPause(in) ==
    /\ in.pauses # {}
    /\ pc = "window_end"
    /\ current_time' = window_end
    /\ now' = now
    /\ pc' = "window_check"
    /\ UNCHANGED <<trackerVars, humanVars, selectorVars, metricVars, start_time, end_time,
                   window_count, window_end, sessions, timingVars, mainVars, human_op, emitted,
                   window_durations, windowVars, minuteVars, listener>>

\* after the window: the logical clock moves to the window's end and the
\* pause between windows is slept
WindowEndOf(in) ==
    \E pause \in in.pauses :
        /\ pc = "window_end"
        /\ current_time' = window_end
        /\ now' = IF is_running /\ window_end < end_time THEN now + pause ELSE now
        /\ pc' = "window_check"
        /\ UNCHANGED <<trackerVars, humanVars, selectorVars, metricVars, start_time, end_time,
                       window_count, window_end, sessions, timingVars, mainVars, human_op, emitted, window_durations, windowVars,
                       minuteVars, listener>>

\* KeyboardInterrupt inside the try of start_tracking
Interrupt ==
    /\ pc \in InTry
    /\ pc' = "stop"
    /\ NoWindowFrame
    /\ UNCHANGED <<trackerVars, humanVars, selectorVars, metricVars, now, start_time, end_time,
                   current_time, window_count, window_end, sessions, timingVars, mainVars, human_op, emitted, window_durations,
                   listener>>

stop_tracking_KeepsRunning ==
    /\ is_running' = is_running
    /\ emitted' = Append(emitted, "completed")

stop_tracking_WithReport ==
    /\ is_running' = FALSE
    /\ emitted' = emitted \o <<"report", "completed">>

\* stop_tracking: the flag is cleared and the completion line is printed
stop_tracking ==
    /\ is_running' = FALSE
    /\ emitted' = Append(emitted, "completed")

\* start_tracking calls stop_tracking and returns
StopTracking ==
    /\ pc = "stop"
    /\ stop_tracking
    /\ pc' = "idle"
    /\ start_time' = 0
    /\ end_time' = 0
    /\ current_time' = 0
    /\ window_count' = 0
    /\ window_end' = 0
    /\ UNCHANGED <<error_count, kill_switch_file, kill_switch_log, faults, humanVars, selectorVars,
                   metricVars, now, sessions, timingVars, mainVars, human_op, window_durations, windowVars,
                   minuteVars, listener>>

\* ---- the listener thread started by the i-th start_tracking call

ListenerKey_Dispatches ==
    \E i \in 1..Len(listener) :
        /\ listener[i] = "polling"
        /\ is_running
        /\ is_running' = FALSE
        /\ listener' = [listener EXCEPT ![i] = "parked"]
        /\ activity_history' = Append(TrimHistory(activity_history), "mouse_click")
        /\ UNCHANGED <<error_count, kill_switch_file, kill_switch_log, faults, humanVars,
                       last_activity_type, repetition_count, candidate_activity,
                       metricVars, now, sessionVars, timingVars, mainVars, human_op, windowVars, minuteVars>>

\* 'q' is seen pressed: the flag is cleared and the polling loop is left
ListenerKey ==
    \E i \in 1..Len(listener) :
        /\ listener[i] = "polling"
        /\ is_running
        /\ is_running' = FALSE
        /\ listener' = [listener EXCEPT ![i] = "parked"]
        /\ UNCHANGED <<error_count, kill_switch_file, kill_switch_log, faults, humanVars, selectorVars,
                       metricVars, now, sessionVars, timingVars, mainVars, human_op, windowVars, minuteVars>>

\* keyboard.is_pressed raises: the thread goes to its second loop
ListenerError ==
    \E i \in 1..Len(listener) :
        /\ listener[i] = "polling"
        /\ is_running
        /\ listener' = [listener EXCEPT ![i] = "parked"]
        /\ UNCHANGED <<trackerVars, humanVars, selectorVars, metricVars, now,
                       sessionVars, timingVars, mainVars, human_op, windowVars, minuteVars>>

ListenerExit_StaysParked ==
    \E i \in 1..Len(listener) :
        /\ listener[i] = "polling"
        /\ ~is_running
        /\ listener' = [listener EXCEPT ![i] = "parked"]
        /\ UNCHANGED <<trackerVars, humanVars, selectorVars, metricVars, now,
                       sessionVars, timingVars, mainVars, human_op, windowVars, minuteVars>>

ListenerExit_SetsRunning ==
    \E i \in 1..Len(listener) :
        /\ listener[i] \in {"polling", "parked"}
        /\ ~is_running
        /\ is_running' = TRUE
        /\ listener' = [listener EXCEPT
                            ![i] = IF listener[i] = "polling" THEN "parked" ELSE "done"]
        /\ UNCHANGED <<error_count, kill_switch_file, kill_switch_log, faults, humanVars,
                       selectorVars, metricVars, now,
                       sessionVars, timingVars, mainVars, human_op, windowVars, minuteVars>>

\* a loop of the thread finds is_running false and is left
ListenerExit ==
    \E i \in 1..Len(listener) :
        /\ listener[i] \in {"polling", "parked"}
        /\ ~is_running
        /\ listener' = [listener EXCEPT
                            ![i] = IF listener[i] = "polling" THEN "parked" ELSE "done"]
        /\ UNCHANGED <<trackerVars, humanVars, selectorVars, metricVars, now,
                       sessionVars, timingVars, mainVars, human_op, windowVars, minuteVars>>

\* ---- the environment: somebody creates STOP_TRACKER.txt
TouchKillSwitch ==
    /\ ~kill_switch_file
    /\ kill_switch_file' = TRUE
    /\ UNCHANGED <<is_running, error_count, kill_switch_log, faults, humanVars, selectorVars,
                   metricVars, now, sessionVars, timingVars, mainVars, human_op, windowVars, minuteVars, listener>>

---------------------------------------------------------------------------
\* Spec: sessions of start_tracking with the listener threads, the kill
\* switch, failing effector calls and the user's interrupt

SessionInputs ==
    [calls         |-> 1,
     durations     |-> {MinuteSeconds, WindowSeconds + MinuteSeconds},
     scales        |-> 7..9,
     errors        |-> 0..2,
     candidates    |-> {"mouse_movement"},
     substitutes   |-> {"mouse_click"},
     targets       |-> [sc \in 7..9 |-> {Lowest(TargetActivities(sc))}],
     variations    |-> {-200},
     thresholds    |-> {45},
     hours         |-> {14},
     bases         |-> {58},
     spent         |-> {30},
     mistakes      |-> {FALSE},
     interruptions |-> {0},
     breaks        |-> {FALSE},
     pauses        |-> {2},
     delays        |-> {[base |-> 100, muscle |-> 1050, inconsistency |-> 1000]},
     rescales      |-> {1000, 1100},
     timing_scores |-> {0},
     mistake_rescales |-> {1000, 1200},
     weights       |-> {1000}]

StartTracking  == StartTrackingOf(SessionInputs)
WindowStart    == WindowStartOf(SessionInputs)
ActiveMinute   == ActiveMinuteOf(SessionInputs)
Dispatch       == DispatchOf(SessionInputs)
DispatchRaises == DispatchRaisesOf(SessionInputs)
AfterActivity  == AfterActivityOf(SessionInputs)
MinuteFinish   == MinuteFinishOf(SessionInputs)
WindowEnd      == WindowEndOf(SessionInputs)

Next ==
    \/ StartTracking \/ WindowLoopExit \/ WindowKillSwitch \/ WindowStart
    \/ WindowReturn \/ MinuteKillSwitch \/ IdleMinute \/ ActiveMinute
    \/ LoopCheck \/ LoopKillSwitch \/ Dispatch \/ DispatchRaises \/ AfterActivity
    \/ MinuteFinish \/ WindowEnd \/ Interrupt \/ StopTracking
    \/ ListenerKey \/ ListenerError \/ ListenerExit \/ TouchKillSwitch

Spec == Init /\ [][Next]_vars

---------------------------------------------------------------------------
\* SpecRepeat: start_tracking called again and again on one tracker whose
\* effector calls fail

RepeatInputs ==
    [calls         |-> MaxSessions,
     durations     |-> {MinuteSeconds},
     scales        |-> {9},
     errors        |-> 0..2,
     candidates    |-> {"mouse_click"},
     substitutes   |-> {"mouse_movement"},
     targets       |-> [sc \in 7..9 |-> {Lowest(TargetActivities(sc))}],
     variations    |-> {-200},
     thresholds    |-> {45},
     hours         |-> {14},
     bases         |-> {58},
     spent         |-> {30},
     mistakes      |-> {FALSE},
     interruptions |-> {0},
     breaks        |-> {FALSE},
     pauses        |-> {2},
     delays        |-> {[base |-> 100, muscle |-> 1050, inconsistency |-> 1000]},
     rescales      |-> {1000, 1100},
     timing_scores |-> {0},
     mistake_rescales |-> {1000, 1200},
     weights       |-> {1000}]

RepeatStartTracking  == StartTrackingOf(RepeatInputs)
RepeatWindowStart    == WindowStartOf(RepeatInputs)
RepeatActiveMinute   == ActiveMinuteOf(RepeatInputs)
RepeatDispatch       == DispatchOf(RepeatInputs)
RepeatDispatchRaises == DispatchRaisesOf(RepeatInputs)
RepeatAfterActivity  == AfterActivityOf(RepeatInputs)
RepeatMinuteFinish   == MinuteFinishOf(RepeatInputs)
RepeatWindowEnd      == WindowEndOf(RepeatInputs)

NextRepeat ==
    \/ RepeatStartTracking \/ WindowLoopExit \/ RepeatWindowStart
    \/ WindowReturn \/ IdleMinute \/ RepeatActiveMinute
    \/ LoopCheck \/ RepeatDispatch \/ RepeatDispatchRaises \/ RepeatAfterActivity
    \/ RepeatMinuteFinish \/ RepeatWindowEnd \/ StopTracking
    \/ ListenerKey \/ ListenerExit

SpecRepeat == Init /\ [][NextRepeat]_vars

---------------------------------------------------------------------------
\* SpecMinute: one session of one minute whose activities are followed one
\* by one, the fast ones included

MinuteInputs ==
    [calls         |-> 1,
     durations     |-> {MinuteSeconds},
     scales        |-> 7..9,
     errors        |-> {0},
     candidates    |-> {"mouse_click"},
     substitutes   |-> {"mouse_movement"},
     targets       |-> [sc \in 7..9 |-> {Lowest(TargetActivities(sc)),
                                          Highest(TargetActivities(sc))}],
     variations    |-> {200},
     thresholds    |-> {45},
     hours         |-> {10},
     bases         |-> {58},
     spent         |-> {0, 30},
     mistakes      |-> BOOLEAN,
     interruptions |-> {0, 21},
     breaks        |-> {FALSE},
     pauses        |-> {2},
     delays        |-> {[base |-> 100, muscle |-> 1050, inconsistency |-> 1000]},
     rescales      |-> {1000, 1100},
     timing_scores |-> {0},
     mistake_rescales |-> {1000, 1200},
     weights       |-> {1000}]

MinuteStartTracking  == StartTrackingOf(MinuteInputs)
MinuteWindowStart    == WindowStartOf(MinuteInputs)
MinuteActiveMinute   == ActiveMinuteOf(MinuteInputs)
MinuteDispatch       == DispatchOf(MinuteInputs)
MinuteAfterActivity  == AfterActivityOf(MinuteInputs)
MinuteMinuteFinish   == MinuteFinishOf(MinuteInputs)
MinuteWindowEnd      == WindowEndOf(MinuteInputs)

NextMinute ==
    \/ MinuteStartTracking \/ WindowLoopExit \/ MinuteWindowStart
    \/ WindowReturn \/ IdleMinute \/ MinuteActiveMinute
    \/ LoopCheck \/ MinuteDispatch \/ MinuteAfterActivity
    \/ MinuteMinuteFinish \/ MinuteWindowEnd \/ StopTracking
    \/ ListenerExit

InitMinute ==
    is_running = FALSE /\ InitFields /\ InitFrames /\ OneSignature /\ NoMain
    /\ error_count = 0

SpecMinute == InitMinute /\ [][NextMinute]_vars

---------------------------------------------------------------------------
\* SpecWindows: sessions of several windows that nothing stops: no key, no
\* kill switch, no interrupt, and too few failing calls for the error limit

WindowsInputs ==
    [calls         |-> 1,
     durations     |-> {MinuteSeconds, WindowSeconds, WindowSeconds + MinuteSeconds,
                        2 * WindowSeconds + MinuteSeconds,
                        (DebugWindowLimit + LongSessionExtra) * WindowSeconds + MinuteSeconds},
     scales        |-> {9},
     errors        |-> 0..1,
     candidates    |-> {"mouse_movement"},
     substitutes   |-> {"mouse_click"},
     targets       |-> [sc \in 7..9 |-> {Lowest(TargetActivities(sc))}],
     variations    |-> {-200},
     thresholds    |-> {90},
     hours         |-> {14},
     bases         |-> {58},
     spent         |-> {30},
     mistakes      |-> {FALSE},
     interruptions |-> {0},
     breaks        |-> {FALSE},
     pauses        |-> {2},
     delays        |-> {[base |-> 100, muscle |-> 1050, inconsistency |-> 1000]},
     rescales      |-> {1000, 1100},
     timing_scores |-> {0},
     mistake_rescales |-> {1000, 1200},
     weights       |-> {1000}]

WindowsStartTracking  == StartTrackingOf(WindowsInputs)
WindowsWindowStart    == WindowStartOf(WindowsInputs)
WindowsActiveMinute   == ActiveMinuteOf(WindowsInputs)
WindowsDispatch       == DispatchOf(WindowsInputs)
WindowsDispatchRaises == DispatchRaisesOf(WindowsInputs)
WindowsAfterActivity  == AfterActivityOf(WindowsInputs)
WindowsMinuteFinish   == MinuteFinishOf(WindowsInputs)
WindowsWindowEnd      == WindowEndOf(WindowsInputs)

NextWindows ==
    \/ WindowsStartTracking \/ WindowLoopExit \/ WindowsWindowStart
    \/ WindowReturn \/ IdleMinute \/ WindowsActiveMinute
    \/ LoopCheck \/ WindowsDispatch \/ WindowsDispatchRaises \/ WindowsAfterActivity
    \/ WindowsMinuteFinish \/ WindowsWindowEnd \/ StopTracking
    \/ ListenerExit

SpecWindows == InitMinute /\ [][NextWindows]_vars

---------------------------------------------------------------------------
\* SpecErrors: sessions with failing effector calls, near the error limit and
\* far from it, in which the simulation thread is never suspended for ever:
\* it takes its next step as long as it has one

ErrorsInputs ==
    [WindowsInputs EXCEPT !.durations = {MinuteSeconds, WindowSeconds + MinuteSeconds},
                          !.pauses = {2, 5}]

ErrorsStartTracking  == StartTrackingOf(ErrorsInputs)
ErrorsWindowStart    == WindowStartOf(ErrorsInputs)
ErrorsActiveMinute   == ActiveMinuteOf(ErrorsInputs)
ErrorsDispatch       == DispatchOf(ErrorsInputs)
ErrorsDispatchRaises == DispatchRaisesOf(ErrorsInputs)
ErrorsAfterActivity  == AfterActivityOf(ErrorsInputs)
ErrorsMinuteFinish   == MinuteFinishOf(ErrorsInputs)
ErrorsWindowEnd      == WindowEndOf(ErrorsInputs)

NextErrors ==
    \/ ErrorsStartTracking \/ WindowLoopExit \/ ErrorsWindowStart
    \/ WindowReturn \/ IdleMinute \/ ErrorsActiveMinute
    \/ LoopCheck \/ ErrorsDispatch \/ ErrorsDispatchRaises \/ ErrorsAfterActivity
    \/ ErrorsMinuteFinish \/ ErrorsWindowEnd \/ Interrupt \/ StopTracking
    \/ ListenerExit

InitErrors ==
    /\ is_running = FALSE /\ InitFields /\ InitFrames /\ OneSignature /\ NoMain
    /\ error_count \in {0, max_errors - ErrHeadroom}

SpecErrors == InitErrors /\ [][NextErrors]_vars /\ WF_vars(NextErrors)

---------------------------------------------------------------------------
\* SpecWeights: a session of two minutes whose activities take less than a
\* second each, so that an active minute performs all its target
\* activities and adaptive_learning runs in the middle of a minute

WeightsInputs ==
    [WindowsInputs EXCEPT !.durations = {2 * MinuteSeconds},
                          !.errors = {0},
                          !.spent = {0},
                          !.weights = {1000, 4500}]

WeightsStartTracking  == StartTrackingOf(WeightsInputs)
WeightsWindowStart    == WindowStartOf(WeightsInputs)
WeightsActiveMinute   == ActiveMinuteOf(WeightsInputs)
WeightsDispatch       == DispatchOf(WeightsInputs)
WeightsAfterActivity  == AfterActivityOf(WeightsInputs)
WeightsMinuteFinish   == MinuteFinishOf(WeightsInputs)
WeightsWindowEnd      == WindowEndOf(WeightsInputs)

NextWeights ==
    \/ WeightsStartTracking \/ WindowLoopExit \/ WeightsWindowStart
    \/ WindowReturn \/ IdleMinute \/ WeightsActiveMinute
    \/ LoopCheck \/ WeightsDispatch \/ WeightsAfterActivity
    \/ WeightsMinuteFinish \/ WeightsWindowEnd \/ StopTracking
    \/ ListenerExit

SpecWeights == InitMinute /\ [][NextWeights]_vars

---------------------------------------------------------------------------
\* SpecLoop: the activity loop of the active minutes of a one-minute
\* session, with activities that take no time or half a minute, a key
\* press or a kill switch at any moment, and a simulation thread that takes
\* its next step as long as it has one

LoopInputs ==
    [WeightsInputs EXCEPT !.durations = {MinuteSeconds},
                          !.scales = {7, 9},
                          !.bases = {20, 58},
                          !.spent = {0, 30},
                          !.weights = {1000}]

LoopStartTracking  == StartTrackingOf(LoopInputs)
LoopWindowStart    == WindowStartOf(LoopInputs)
LoopActiveMinute   == ActiveMinuteOf(LoopInputs)
LoopDispatch       == DispatchOf(LoopInputs)
LoopAfterActivity  == AfterActivityOf(LoopInputs)
LoopMinuteFinish   == MinuteFinishOf(LoopInputs)
LoopWindowEnd      == WindowEndOf(LoopInputs)

NextLoop ==
    \/ LoopStartTracking \/ WindowLoopExit \/ WindowKillSwitch \/ LoopWindowStart
    \/ WindowReturn \/ MinuteKillSwitch \/ IdleMinute \/ LoopActiveMinute
    \/ LoopCheck \/ LoopKillSwitch \/ LoopDispatch \/ LoopAfterActivity
    \/ LoopMinuteFinish \/ LoopWindowEnd \/ StopTracking
    \/ ListenerKey \/ ListenerError \/ ListenerExit \/ TouchKillSwitch

SpecLoop == InitMinute /\ [][NextLoop]_vars /\ WF_vars(NextLoop)

---------------------------------------------------------------------------
\* SpecTargets: one-minute sessions over every outcome of the target draw

TargetsInputs ==
    [calls         |-> 1,
     durations     |-> {MinuteSeconds},
     scales        |-> 7..9,
     errors        |-> {0},
     candidates    |-> {"mouse_movement"},
     substitutes   |-> {"mouse_click"},
     targets       |-> [sc \in 7..9 |-> TargetActivities(sc)],
     variations    |-> {200},
     thresholds    |-> {90},
     hours         |-> {10},
     bases         |-> {58},
     spent         |-> {30},
     mistakes      |-> {FALSE},
     interruptions |-> {0},
     breaks        |-> {FALSE},
     pauses        |-> {2},
     delays        |-> {[base |-> 100, muscle |-> 1050, inconsistency |-> 1000]},
     rescales      |-> {1000, 1100},
     timing_scores |-> {0},
     mistake_rescales |-> {1000, 1200},
     weights       |-> {1000}]

TargetsStartTracking  == StartTrackingOf(TargetsInputs)
TargetsWindowStart    == WindowStartOf(TargetsInputs)
TargetsActiveMinute   == ActiveMinuteOf(TargetsInputs)
TargetsDispatch       == DispatchOf(TargetsInputs)
TargetsAfterActivity  == AfterActivityOf(TargetsInputs)
TargetsMinuteFinish   == MinuteFinishOf(TargetsInputs)
TargetsWindowEnd      == WindowEndOf(TargetsInputs)

NextTargets ==
    \/ TargetsStartTracking \/ WindowLoopExit \/ TargetsWindowStart
    \/ WindowReturn \/ IdleMinute \/ TargetsActiveMinute
    \/ LoopCheck \/ TargetsDispatch \/ TargetsAfterActivity
    \/ TargetsMinuteFinish \/ TargetsWindowEnd \/ StopTracking
    \/ ListenerExit

SpecTargets == InitMinute /\ [][NextTargets]_vars

---------------------------------------------------------------------------
\* SpecTiming: add_anti_detection_jitter under every timing signature that
\* __init__ and adaptive_learning can leave

InitTiming ==
    /\ is_running = TRUE /\ InitFields /\ InitFrames /\ NoMain /\ error_count = 0
    /\ InitSignature(InitJitterBase, MicroDelays, {Highest(InitMistakeFrequency)})

TimingJitter ==
    \E base_delay \in BaseDelays, muscle \in MuscleMemory, inconsistency \in Inconsistency :
        /\ jittered_delay' = add_anti_detection_jitter(base_delay, timing_jitter_base,
                                 muscle, inconsistency, micro_delay_signature)
        /\ UNCHANGED <<timing_jitter_base, micro_delay_signature, mistake_frequency,
                       mainVars, human_op>>
        /\ UNCHANGED <<trackerVars, humanVars, selectorVars, metricVars, now,
                       sessionVars, windowVars, minuteVars, listener>>

\* twenty more activities have been counted and adaptive_learning runs;
\* SpecTiming follows the lowest draw of the factor of mistake_frequency
TimingLearn ==
    \E factor \in RescaleFactors, timing_score \in TimingScores, mistakes \in 0..MaxMistakes,
       mistake_factor \in MistakeRescaleFactors :
        /\ total_activities < 20 * MaxLearnings
        /\ total_activities' = total_activities + 20
        /\ LearningDue(total_activities')
        /\ mistakes_made' = mistakes_made + mistakes
        /\ activity_breakdown' =
               [activity_breakdown EXCEPT ![all_activities[1]] = @ + 20]
        /\ LET human_likeness == HumanLikeness(timing_score, mistakes_made',
                                               total_activities')
           IN  /\ factor \in LearningFactors(human_likeness)
               /\ mistake_factor = Lowest(MistakeFactors(human_likeness))
        /\ timing_jitter_base' = Rescaled(timing_jitter_base, factor)
        /\ mistake_frequency' = Rescaled(mistake_frequency, mistake_factor)
        /\ adaptive_weights' = analyze_activity_patterns(adaptive_weights, activity_history)
        /\ UNCHANGED <<micro_delay_signature, jittered_delay, mainVars, human_op>>
        /\ UNCHANGED <<trackerVars, humanVars, selectorVars, now,
                       sessionVars, windowVars, minuteVars, listener>>

NextTiming == TimingJitter \/ TimingLearn

SpecTiming == InitTiming /\ [][NextTiming]_vars

---------------------------------------------------------------------------
\* SpecLearning: the rescaled traits of a long session: adaptive_learning
\* runs after every twenty activities, with every human-likeness score the
\* metrics can hold and every draw of the two factors

InitLearning ==
    /\ is_running = TRUE /\ InitFields /\ InitFrames /\ NoMain /\ error_count = 0
    /\ InitSignature({Lowest(InitJitterBase)}, {Lowest(MicroDelays)},
                     InitMistakeFrequency)

LearningAdapt ==
    \E timing_score \in TimingScores, mistakes \in 0..MaxMistakes :
    LET human_likeness == HumanLikeness(timing_score, mistakes_made + mistakes,
                                        total_activities + 20)
    IN  \E factor \in LearningFactors(human_likeness),
           mistake_factor \in MistakeFactors(human_likeness) :
        /\ total_activities < 20 * MaxAdaptations
        /\ total_activities' = total_activities + 20
        /\ LearningDue(total_activities')
        /\ mistakes_made' = mistakes_made + mistakes
        /\ activity_breakdown' =
               [activity_breakdown EXCEPT ![all_activities[1]] = @ + 20]
        /\ timing_jitter_base' = Rescaled(timing_jitter_base, factor)
        /\ mistake_frequency' = Rescaled(mistake_frequency, mistake_factor)
        /\ adaptive_weights' = analyze_activity_patterns(adaptive_weights, activity_history)
        /\ UNCHANGED <<micro_delay_signature, jittered_delay, mainVars, human_op>>
        /\ UNCHANGED <<trackerVars, humanVars, selectorVars, now,
                       sessionVars, windowVars, minuteVars, listener>>

NextLearning == LearningAdapt

SpecLearning == InitLearning /\ [][NextLearning]_vars

---------------------------------------------------------------------------
\* main: the command-line argument or the interactive prompt, up to the
\* call of start_tracking

\* what the user can type
Texts == {"abc", "", "nan", "inf", "-inf", "-1", "0", "0.01", "24", "24.01"}

\* float(text): a float, or ValueError; finite values in hundredths
ParseFloat(text) ==
    CASE text = "nan"   -> Float("nan", 0)
      [] text = "inf"   -> Float("inf", 0)
      [] text = "-inf"  -> Float("-inf", 0)
      [] text = "-1"    -> Float("finite", -100)
      [] text = "0"     -> Float("finite", 0)
      [] text = "0.01"  -> Float("finite", 1)
      [] text = "24"    -> Float("finite", 2400)
      [] text = "24.01" -> Float("finite", 2401)
      [] OTHER          -> Float("ValueError", 0)

\* hours <= 0 (false for nan)
NotPositive(h) == h.class = "-inf" \/ (h.class = "finite" /\ h.v <= 0)

TooLong_NoLimit(h) == FALSE

\* hours > 24 (false for nan)
TooLong(h) == h.class = "inf" \/ (h.class = "finite" /\ h.v > 2400)

\* int(hours * 6) raises ValueError for nan
IntRaises(h) == h.class = "nan"

\* the message main prints for a text, "Starting" when it goes on to the
\* session
MessageFor(text, invalid) ==
    LET h == ParseFloat(text)
    IN  IF h.class = "ValueError" THEN invalid
        ELSE IF NotPositive(h) THEN "Please enter a positive number of hours."
        ELSE IF TooLong(h) THEN "Maximum 24 hours allowed for safety."
        ELSE IF IntRaises(h) THEN invalid
        ELSE "Starting"

\* main with a command-line argument
MainArgument ==
    LET said == MessageFor(argv[1], "Invalid argument. Please enter a number.")
    IN  /\ main_pc = "start"
        /\ argv # <<>>
        /\ message' = said
        /\ hours' = IF said = "Starting" THEN ParseFloat(argv[1]) ELSE NoHours
        /\ main_pc' = IF said = "Starting" THEN "calling" ELSE "exited"
        /\ UNCHANGED <<argv, prompts>>
        /\ UNCHANGED <<trackerVars, humanVars, selectorVars, metricVars, timingVars,
                       now, sessionVars, windowVars, minuteVars, listener, human_op>>

\* interactive mode: one input is read and validated
MainPrompt ==
    \E text \in Texts :
    LET said == MessageFor(text, "Invalid input. Please enter a number.")
    IN  /\ main_pc \in {"start", "prompt"}
        /\ argv = <<>>
        /\ prompts < MaxPrompts
        /\ prompts' = prompts + 1
        /\ message' = said
        /\ hours' = IF said = "Starting" THEN ParseFloat(text) ELSE NoHours
        /\ main_pc' = IF said = "Starting" THEN "confirm" ELSE "prompt"
        /\ UNCHANGED argv
        /\ UNCHANGED <<trackerVars, humanVars, selectorVars, metricVars, timingVars,
                       now, sessionVars, windowVars, minuteVars, listener, human_op>>

\* interactive mode: Continue? (y/n)
MainConfirm ==
    \E yes \in BOOLEAN :
        /\ main_pc = "confirm"
        /\ main_pc' = IF yes THEN "calling" ELSE "prompt"
        /\ message' = IF yes THEN message ELSE "Tracking cancelled."
        /\ hours' = hours
        /\ UNCHANGED <<argv, prompts>>
        /\ UNCHANGED <<trackerVars, humanVars, selectorVars, metricVars, timingVars,
                       now, sessionVars, windowVars, minuteVars, listener, human_op>>

\* interactive mode: KeyboardInterrupt or EOFError at an input
MainInterrupt ==
    /\ main_pc \in {"start", "prompt", "confirm"}
    /\ argv = <<>>
    /\ main_pc' = "exited"
    /\ message' \in {"Goodbye!", "No input available. Use: python activity-tracker.py <hours>"}
    /\ UNCHANGED <<argv, hours, prompts>>
    /\ UNCHANGED <<trackerVars, humanVars, selectorVars, metricVars, timingVars,
                   now, sessionVars, windowVars, minuteVars, listener, human_op>>

\* start_tracking has returned to main
MainReturn ==
    /\ main_pc = "calling"
    /\ pc = "idle"
    /\ sessions > 0
    /\ main_pc' = "exited"
    /\ UNCHANGED <<argv, hours, message, prompts>>
    /\ UNCHANGED <<trackerVars, humanVars, selectorVars, metricVars, timingVars,
                   now, sessionVars, windowVars, minuteVars, listener, human_op>>

---------------------------------------------------------------------------
\* SpecMain: main from its start to its exit, with the call of start_tracking

\* duration_hours * 3600, the hours in hundredths
SecondsOf(h) == h.v * 36

MainInputs ==
    [calls         |-> 1,
     durations     |-> IF hours.class = "finite" THEN {SecondsOf(hours)} ELSE {},
     scales        |-> {9},
     errors        |-> {0},
     candidates    |-> {"mouse_movement"},
     substitutes   |-> {"mouse_click"},
     targets       |-> [sc \in 7..9 |-> {Lowest(TargetActivities(sc))}],
     variations    |-> {-200},
     thresholds    |-> {90},
     hours         |-> {14},
     bases         |-> {58},
     spent         |-> {30},
     mistakes      |-> {FALSE},
     interruptions |-> {0},
     breaks        |-> {FALSE},
     pauses        |-> {2},
     delays        |-> {[base |-> 100, muscle |-> 1050, inconsistency |-> 1000]},
     rescales      |-> {1000, 1100},
     timing_scores |-> {0},
     mistake_rescales |-> {1000, 1200},
     weights       |-> {1000}]

MainStartTracking == main_pc = "calling" /\ StartTrackingOf(MainInputs)

\* the session main starts is interrupted by the user before its first window
NextMain ==
    \/ MainArgument \/ MainPrompt \/ MainConfirm \/ MainInterrupt \/ MainReturn
    \/ MainStartTracking \/ Interrupt \/ StopTracking
    \/ ListenerKey \/ ListenerExit

InitMain ==
    /\ is_running = FALSE /\ InitFields /\ InitFrames /\ OneSignature
    /\ error_count = 0
    /\ main_pc = "start"
    /\ argv \in {<<>>} \cup {<<text>> : text \in Texts}
    /\ hours = NoHours
    /\ message = ""
    /\ prompts = 0

SpecMain == InitMain /\ [][NextMain]_vars

---------------------------------------------------------------------------
\* SpecSelector: the selector fed with every sequence of candidates

SelectorStep ==
    \E candidate \in DrawCats, new_activity \in DrawCats :
        /\ SelectActivity(candidate, new_activity)
        /\ UNCHANGED <<trackerVars, humanVars, metricVars, now, sessionVars, timingVars, mainVars, human_op,
                       windowVars, minuteVars, listener>>

NextSelector == SelectorStep

SpecSelector == Init /\ [][NextSelector]_vars

---------------------------------------------------------------------------
\* SpecHuman: the human state of a running session under every sequence of
\* updates, activities, micro-breaks and passing hours

InitHuman ==
    is_running = TRUE /\ InitFields /\ InitFrames /\ OneSignature /\ NoMain
    /\ error_count = 0

HumanUpdate ==
    \E variation \in FocusVariations, threshold \in BreakThresholds, hour \in Hours :
        /\ update_human_state(variation, threshold, hour)
        /\ UNCHANGED <<trackerVars, selectorVars, metricVars, now, sessionVars, timingVars, mainVars, human_op,
                       windowVars, minuteVars, listener>>

\* an activity of the loop: consecutive_active_minutes += 1
HumanActivity ==
    /\ consecutive_active_minutes < MaxConsecutive
    /\ consecutive_active_minutes' = consecutive_active_minutes + 1
    /\ UNCHANGED <<fatigue_level, focus_level, break_needed>>
    /\ UNCHANGED <<trackerVars, selectorVars, metricVars, now, sessionVars, timingVars, mainVars, human_op,
                   windowVars, minuteVars, listener>>

HumanBreak ==
    \E break_duration \in BreakDurations :
        /\ simulate_micro_break(break_duration)
        /\ UNCHANGED <<trackerVars, selectorVars, metricVars, now, sessionVars, timingVars, mainVars, human_op,
                       windowVars, minuteVars, listener>>

HumanHours ==
    /\ now + 3 * 3600 <= MaxHours * 3600
    /\ now' = now + 3 * 3600
    /\ UNCHANGED <<trackerVars, humanVars, selectorVars, metricVars, sessionVars, timingVars, mainVars, human_op,
                   windowVars, minuteVars, listener>>

NextHuman == HumanUpdate \/ HumanActivity \/ HumanBreak \/ HumanHours

SpecHuman == InitHuman /\ [][NextHuman]_vars

---------------------------------------------------------------------------
\* SpecBreaks: the break flag of a running session over long runs of
\* activities, with every draw of the break threshold and every length of
\* micro-break; each update and each break is recorded in human_op

\* the record of an operation: its draw n, consecutive_active_minutes when
\* it was called; tick tells two equal operations apart
Recorded(op, n) ==
    [op |-> op, n |-> n, at |-> consecutive_active_minutes, tick |-> 1 - human_op.tick]

\* activities of one minute: consecutive_active_minutes += 1 for each
MinuteActivities == {17, 44}

BreaksUpdate ==
    \E threshold \in BreakThresholds :
        /\ update_human_state(0, threshold, 12)
        /\ human_op' = Recorded("update", threshold)
        /\ UNCHANGED <<trackerVars, selectorVars, metricVars, now, sessionVars, timingVars,
                       mainVars, windowVars, minuteVars, listener>>

BreaksActivities ==
    \E k \in MinuteActivities :
        /\ consecutive_active_minutes + k <= MaxBreakMinutes
        /\ consecutive_active_minutes' = consecutive_active_minutes + k
        /\ UNCHANGED <<fatigue_level, focus_level, break_needed, human_op>>
        /\ UNCHANGED <<trackerVars, selectorVars, metricVars, now, sessionVars, timingVars,
                       mainVars, windowVars, minuteVars, listener>>

BreaksBreak ==
    \E break_duration \in BreakDurations :
        /\ simulate_micro_break(break_duration)
        /\ human_op' = Recorded("break", break_duration)
        /\ UNCHANGED <<trackerVars, selectorVars, metricVars, now, sessionVars, timingVars,
                       mainVars, windowVars, minuteVars, listener>>

NextBreaks == BreaksUpdate \/ BreaksActivities \/ BreaksBreak

SpecBreaks == InitHuman /\ [][NextBreaks]_vars

---------------------------------------------------------------------------
\* SpecFatigue: fatigue_level of a running session while hours pass,
\* activities are performed, and updates and micro-breaks follow each
\* other in every order

\* update_human_state; the record keeps fatigue_level before the call in
\* at, and in n the number of updates since the last break (up to 2)
FatigueUpdate ==
    /\ update_human_state(0, Highest(BreakThresholds), 12)
    /\ human_op' = [op |-> "update",
                    n |-> IF human_op.op = "update" THEN 2 ELSE 1,
                    at |-> fatigue_level,
                    tick |-> 1 - human_op.tick]
    /\ UNCHANGED <<trackerVars, selectorVars, metricVars, now, sessionVars, timingVars,
                   mainVars, windowVars, minuteVars, listener>>

\* simulate_micro_break; n is 1 when this break, or an earlier one since
\* the last update, lowered consecutive_active_minutes
FatigueBreak ==
    \E break_duration \in BreakDurations :
        /\ simulate_micro_break(break_duration)
        /\ human_op' = Recorded("break",
               IF \/ consecutive_active_minutes' < consecutive_active_minutes
                  \/ (human_op.op = "break" /\ human_op.n = 1)
               THEN 1 ELSE 0)
        /\ UNCHANGED <<trackerVars, selectorVars, metricVars, now, sessionVars, timingVars,
                       mainVars, windowVars, minuteVars, listener>>

NextFatigue == FatigueUpdate \/ HumanActivity \/ FatigueBreak \/ HumanHours

SpecFatigue == InitHuman /\ [][NextFatigue]_vars

---------------------------------------------------------------------------
\* Claims

\* the session is inside simulate_activity_scale
InWindow ==
    pc \in {"minute_check", "loop_check", "loop_body", "after_activity", "minute_finish"}

\* C1: in every window the scale is an integer in {7,8,9} and
\* idle_minute_positions holds exactly 10 - scale pairwise distinct
\* integers, each in 0..9.
C1_WindowShape ==
    InWindow =>
        /\ scale \in {7, 8, 9}
        /\ Len(idle_minute_positions) = 10 - scale
        /\ \A i, j \in 1..Len(idle_minute_positions) :
               i # j => idle_minute_positions[i] # idle_minute_positions[j]
        /\ \A i \in 1..Len(idle_minute_positions) :
               idle_minute_positions[i] \in 0..9

\* a window of scale 7 with its three idle minutes is running
C1_Witness ==
    /\ InWindow
    /\ scale = 7
    /\ Len(idle_minute_positions) = 3
    /\ Cardinality({idle_minute_positions[i] : i \in 1..3}) = 3

\* C2: during an idle minute no activity is selected, dispatched or appended
\* to the history; during an active minute 0 <= activities_performed <=
\* target_activities at every point of the minute.
C2_IdleAndBounded ==
    [][/\ (pc = "minute_check" /\ is_running
              /\ \E i \in 1..Len(idle_minute_positions) :
                     idle_minute_positions[i] = minute_num)
          => /\ activity_history' = activity_history
             /\ last_activity_type' = last_activity_type
             /\ total_activities' = total_activities
             /\ activities_performed' = 0
             /\ pc' \notin {"loop_check", "loop_body", "after_activity"}
       /\ 0 <= activities_performed' /\ activities_performed' <= target_activities'
      ]_vars

\* an active minute has performed its whole target
C2_Witness ==
    /\ pc = "minute_finish"
    /\ target_activities > 0
    /\ activities_performed = target_activities
    /\ idle_minute_positions # <<>>
    /\ \A i \in 1..Len(idle_minute_positions) : idle_minute_positions[i] # minute_num

RECURSIVE SumSeq(_)
SumSeq(seq) == IF seq = <<>> THEN 0 ELSE seq[1] + SumSeq(Tail(seq))

InActiveMinute == pc \in {"loop_check", "loop_body", "after_activity", "minute_finish"}

Count(seq, x) == Cardinality({i \in 1..Len(seq) : seq[i] = x})

\* C13: a full 10-minute window of scale s that is neither stopped nor
\* aborted by an error executes exactly 10 minutes, of which exactly 10 - s
\* are idle and exactly s are active.
C13_FullWindowMinutes ==
    [][(/\ pc = "minute_check" /\ pc' = "window_end"
        /\ is_running /\ is_running'
        /\ window_durations[Len(window_durations)] = 600)
          => /\ Len(minute_log) = 10
             /\ Count(minute_log, "idle") = 10 - scale
             /\ Count(minute_log, "active") = scale
      ]_vars

\* a full window of scale 7 has gone through its ten minutes and is about
\* to return
C13_Witness ==
    /\ pc = "minute_check"
    /\ is_running
    /\ minute_num = 10
    /\ scale = 7
    /\ window_durations # <<>>
    /\ window_durations[Len(window_durations)] = 600
    /\ Count(minute_log, "idle") = 3

\* C14: add_anti_detection_jitter returns at least 0.01 s (10 ms) for every
\* input delay >= 0 under every timing signature a session can have,
\* adaptive_learning's rescaling included.
C14_JitterFloor ==
    [][jittered_delay' # jittered_delay => jittered_delay' >= 10]_vars

\* a zero delay under a signature adaptive_learning has scaled down: the
\* result is the micro-delay signature alone
C14_Witness ==
    /\ timing_jitter_base < Lowest(InitJitterBase)
    /\ jittered_delay = micro_delay_signature
    /\ jittered_delay = 20

Accepted(h) == h.class = "finite" /\ h.v > 0 /\ h.v <= 2400

C16_OnlyValidHoursStart ==
    /\ main_pc = "calling" => Accepted(hours)
    /\ sessions > 0 => Accepted(hours)
    /\ ~Accepted(hours) => ~is_running /\ sessions = 0 /\ pc = "idle"
    /\ main_pc \in {"prompt", "exited"} /\ sessions = 0 => message # "" /\ message # "Starting"

C16_Witness ==
    /\ main_pc = "exited"
    /\ sessions = 0
    /\ message = "Maximum 24 hours allowed for safety."

\* the latest call of avoid_repetitive_patterns forced a substitute
Substituted ==
    candidate_activity # NoActivity /\ last_activity_type # candidate_activity

\* C17: when avoid_repetitive_patterns has forced a substitute category,
\* repetition_count is 0 on its return.
C17_CountResetBySubstitute == Substituted => repetition_count = 0

\* the three picks before the latest one all equal its candidate
RunBeforeCandidate ==
    LET n == Len(activity_history)
    IN  /\ n > pattern_detection_threshold
        /\ \A j \in 1..pattern_detection_threshold :
               activity_history[n - j] = candidate_activity

\* C18: avoid_repetitive_patterns returns a category different from the
\* candidate exactly when the three immediately preceding picks equal the
\* candidate, and the candidate unchanged otherwise.
C18_SubstituteOnlyAfterRun ==
    candidate_activity # NoActivity => (Substituted <=> RunBeforeCandidate)

\* C19: in a window truncated to d < 600 seconds only ceil(d / 60) minute
\* slots execute: no idle sleep and no human-state update is made for a
\* slot that begins at or after the window's end.
C19_TruncatedWindowMinutes ==
    LET d == window_durations[Len(window_durations)]
    IN  (InWindow /\ window_durations # <<>> /\ d < WindowSeconds)
        => Len(minute_log) * MinuteSeconds < d + MinuteSeconds

\* C20: an active minute that is not stopped ends exactly at minute_end,
\* neither before it nor past it.
C20_MinuteEndsAtBoundary ==
    [][(pc = "minute_finish" /\ pc' = "minute_check"
        /\ is_running /\ ~kill_switch_file)
       => now' = minute_end]_vars

\* a window's execution raises and start_tracking catches the exception
WindowRaises ==
    pc = "loop_body" /\ pc' \in {"window_end", "stop"} /\ faults' > faults

\* C21: an exception of a window is caught by start_tracking and counted
\* once; the rest of the window is skipped; the session goes on after the
\* window if error_count < max_errors and stops otherwise, after which no
\* window starts.  simple_activity_tracker's handler decides the same.
C21_WindowErrorCounted ==
    [][/\ WindowRaises =>
            /\ error_count' = error_count + (faults' - faults)
            /\ error_count' = SimpleErrorCount(error_count)
            /\ pc' = IF error_count' < max_errors THEN "window_end" ELSE "stop"
            /\ (pc' = "window_end") = SimpleContinues(error_count)
            /\ error_count' >= max_errors => ~is_running'
            /\ minute_num' = 0 /\ minute_log' = <<>>
            /\ window_count' = window_count
       /\ pc = "stop" => pc' \in {"stop", "idle"} /\ window_count' <= window_count
      ]_vars

C21_Witness ==
    /\ pc = "window_check" /\ is_running
    /\ faults > 0 /\ error_count > 0 /\ error_count < max_errors
    /\ window_count = 1 /\ current_time = window_end /\ current_time < end_time
    /\ activity_history # <<>>
    /\ activity_history[Len(activity_history)] = "mouse_click"

\* C22: a failing effector call inside a simulator is caught inside the
\* simulator and counted once, and the activity loop goes on with the next
\* activity: the minute and the window are not abandoned.
C22_EffectorErrorsHandledInPlace ==
    [][(pc = "loop_body" /\ faults' > faults)
       => /\ error_count' = error_count + (faults' - faults)
          /\ pc' = "after_activity"
          /\ minute_num' = minute_num]_vars

\* start_tracking has returned from a session
Returned == pc = "idle" /\ sessions > 0

\* C23: no exception raised inside a window leaves start_tracking: once an
\* effector call has failed in a session, start_tracking reaches
\* stop_tracking and returns, and it always returns with is_running false.
C23_ErrorsStayInsideSession ==
    /\ [](Returned => ~is_running /\ emitted[Len(emitted)] = "completed")
    /\ ((pc \in InTry /\ faults > 0) ~> (Returned /\ ~is_running))

C23_Witness ==
    /\ Returned /\ ~is_running
    /\ faults > 0 /\ error_count > 0
    /\ activity_history # <<>>
    /\ activity_history[Len(activity_history)] = "mouse_click"
    /\ emitted[Len(emitted)] = "completed"

\* check_kill_switch finds the marker in this step
MarkerObserved == Len(kill_switch_log') = Len(kill_switch_log) + 1

\* the checkpoints of a session poll the marker: with the marker present no
\* window, no minute and no activity starts; with the marker absent
\* check_kill_switch prints nothing and the checkpoint leaves is_running alone
MarkerPolled ==
    /\ (kill_switch_file /\ pc = "window_check") => pc' # "minute_check"
    /\ (kill_switch_file /\ pc = "minute_check")
           => pc' # "loop_check" /\ minute_num' # minute_num + 1
    /\ (kill_switch_file /\ pc = "loop_body") => pc' # "after_activity"
    /\ (~kill_switch_file /\ pc \in InTry) => kill_switch_log' = kill_switch_log
    /\ (~kill_switch_file /\ pc = "window_check" /\ pc' = "minute_check")
           => is_running' = is_running
    /\ (~kill_switch_file /\ pc = "minute_check"
           /\ (pc' = "loop_check" \/ minute_num' = minute_num + 1))
           => is_running' = is_running

\* C24 as stated: whenever check_kill_switch observes the marker it clears
\* is_running and removes the marker; with the marker absent it changes
\* nothing; the marker is polled at every window start, minute start and
\* activity-loop iteration.
C24_MarkerConsumed ==
    [][/\ MarkerObserved => ~is_running' /\ ~kill_switch_file'
       /\ MarkerPolled]_vars

\* C24 as the code has it: whenever check_kill_switch observes the marker
\* it clears is_running and tries to remove the marker; the marker is gone
\* exactly when os.remove succeeded, and a marker that could not be removed
\* is observed again by the next check.
C24_MarkerStops ==
    [][/\ MarkerObserved =>
            /\ kill_switch_file /\ ~is_running'
            /\ kill_switch_file' = (kill_switch_log'[Len(kill_switch_log')] = "kept")
       /\ (kill_switch_file /\ ~kill_switch_file') => MarkerObserved
       /\ MarkerPolled]_vars

\* the marker was found at a minute start, removed, and the session ended
C24_Witness ==
    /\ Returned /\ ~is_running /\ ~kill_switch_file
    /\ kill_switch_log = <<"removed">>

\* a step of a keyboard listener thread
ListenerStep == listener' # listener /\ Len(listener') = Len(listener)

\* C25: a listener thread only ever writes false to is_running and writes
\* nothing else; within one start_tracking call is_running only changes
\* from true to false, under every interleaving of the threads.
C25_ListenerOnlyStops ==
    [][/\ ListenerStep =>
            /\ is_running' => is_running
            /\ UNCHANGED <<error_count, kill_switch_file, kill_switch_log, faults,
                           humanVars, selectorVars, metricVars, timingVars, mainVars, human_op,
                           now, sessionVars, windowVars, minuteVars>>
       /\ (is_running' /\ ~is_running) => (pc = "idle" /\ pc' = "window_check")
      ]_vars

\* a listener has stopped a session in the middle of a minute and the
\* simulation thread has gone on from there
C25_Witness ==
    /\ pc = "minute_finish"
    /\ ~is_running
    /\ \E i \in 1..Len(listener) : listener[i] = "parked"
    /\ error_count < max_errors
    /\ kill_switch_log = <<>>
    /\ activities_performed > 0

\* C26: after a window a pause of 2 to 5 seconds is slept whenever the
\* session is running and its duration has not elapsed, and only then; a
\* further window starts only under that condition, which nothing
\* re-establishes between the end of a window and the next loop test.
C26_PauseBetweenWindows ==
    [][/\ (pc = "window_end" /\ pc' = "window_check")
          => IF is_running /\ window_end < end_time
             THEN now' - now \in 2..5
             ELSE now' = now
       /\ (window_count' = window_count + 1)
          => is_running /\ current_time < end_time
       /\ (pc = "window_check" /\ pc' = "window_check")
          => /\ current_time' = current_time /\ end_time' = end_time
             /\ is_running' => is_running
      ]_vars

\* the longest pause was slept after a full first window
C26_Witness ==
    /\ pc = "window_check" /\ is_running
    /\ window_count = 1
    /\ current_time = WindowSeconds /\ current_time < end_time
    /\ now = start_time + WindowSeconds + 5

\* C27: the personal traits keep the values drawn in __init__ for the
\* whole session: no step of a running session changes timing_jitter_base
\* or micro_delay_signature.
C27_TraitsFixed ==
    [][pc # "idle" =>
           /\ timing_jitter_base' = timing_jitter_base
           /\ micro_delay_signature' = micro_delay_signature]_vars

\* the step is an executed micro-break / a call of update_human_state
BreakStep  == human_op' # human_op /\ human_op'.op = "break"
UpdateStep == human_op' # human_op /\ human_op'.op = "update"

\* C28: every executed micro-break leaves break_needed false and
\* consecutive_active_minutes no larger than before and >= 0.
C28_BreakClearsFlag ==
    [][BreakStep =>
           /\ ~break_needed'
           /\ consecutive_active_minutes' <= consecutive_active_minutes
           /\ consecutive_active_minutes' >= 0]_vars

\* C29: update_human_state never sets break_needed when
\* consecutive_active_minutes <= 45 and always sets it above 90; two updates
\* of one break period at the same consecutive_active_minutes decide the
\* same; break_needed, once true, stays true until a break clears it.
C29_ThresholdOncePerPeriod ==
    [][/\ UpdateStep =>
            /\ consecutive_active_minutes <= 45 => break_needed' = break_needed
            /\ consecutive_active_minutes > 90 => break_needed'
            /\ (human_op.op = "update" /\ human_op.at = consecutive_active_minutes)
                   => break_needed' = break_needed
       /\ (break_needed /\ ~break_needed') => BreakStep
      ]_vars

\* C30: consecutive_active_minutes counts active minutes: in the first
\* window of a tracker's first session it is at most the number of active
\* minutes started so far, and never negative.
C30_CountsActiveMinutes ==
    (InWindow /\ sessions = 1 /\ window_count = 1)
        => /\ consecutive_active_minutes >= 0
           /\ consecutive_active_minutes <= Count(minute_log, "active")

\* C31: between two updates of the human state with no micro-break between
\* them fatigue_level does not fall; it falls only when a micro-break since
\* the last update lowered consecutive_active_minutes.
C31_FatigueFallsOnlyAfterBreak ==
    [][fatigue_level' < fatigue_level
           => (human_op.op = "break" /\ human_op.n = 1)]_vars

\* two updates in a row, the second one raising fatigue_level
C31_Witness ==
    /\ human_op.op = "update" /\ human_op.n = 2
    /\ human_op.at > 0
    /\ fatigue_level > human_op.at

\* C32: activity_history is a FIFO of the most recent choices: a selection
\* appends the chosen activity at the end, drops the oldest entry when ten
\* are held and keeps the others in order, so the list never holds more
\* than ten entries.
C32_HistoryIsFifo ==
    [][activity_history' # activity_history =>
           LET old == activity_history
               new == activity_history'
               evicted == Len(old) + 1 - Len(new)
           IN  /\ Len(new) = Min(Len(old) + 1, HistoryLimit)
               /\ new[Len(new)] = last_activity_type'
               /\ \A i \in 1..(Len(new) - 1) : new[i] = old[i + evicted]]_vars

\* more than ten selections were made and the oldest entries were evicted
C32_Witness ==
    /\ total_activities > HistoryLimit
    /\ Len(activity_history) = HistoryLimit
    /\ activity_history[1] # activity_history[HistoryLimit]

\* a step inside the activity loop of one active minute
InLoopStep == InActiveMinute /\ InActiveMinute'

\* the start of a session, where initialize_analytics resets the multipliers
SessionStart == sessions' = sessions + 1

\* C33: a discount made by adaptive_learning during an active minute leaves
\* the minute's weight vector alone: the vector is computed from the
\* multipliers at the start of the active minute and is not changed inside
\* its loop.  A discount multiplies by 0.8 the multiplier of one category
\* that holds more than 6 of the last 10 history entries, and changes no
\* other multiplier.
C33_DiscountFromNextMinute ==
    [][/\ InLoopStep => activity_weights' = activity_weights
       /\ (pc = "minute_check" /\ pc' = "loop_check")
              => \E weight \in {1000, 4500} :
                     \A c \in Categories :
                         activity_weights'[c] = (weight * adaptive_weights[c]) \div 1000
       /\ (adaptive_weights' # adaptive_weights /\ ~SessionStart)
              => \E c \in Categories :
                     /\ Cardinality({i \in 1..Len(activity_history) :
                                        /\ i > Len(activity_history) - 10
                                        /\ activity_history[i] = c}) > 6
                     /\ adaptive_weights'[c] = (adaptive_weights[c] * 8) \div 10
                     /\ \A d \in Categories \ {c} :
                            adaptive_weights'[d] = adaptive_weights[d]
      ]_vars

\* a multiplier was discounted by the twentieth activity and the next
\* selection of the same minute uses the undiscounted weight vector
C33_Witness ==
    /\ pc = "loop_body"
    /\ total_activities = 20
    /\ adaptive_weights["mouse_movement"] = 800
    /\ activity_weights["mouse_movement"] = 1000

C35_SessionTerminates ==
    /\ [][(current_time' # current_time /\ pc \in InTry /\ pc' \in InTry)
              => current_time' = Min(current_time + WindowSeconds, end_time)]_vars
    /\ [](pc \in InTry
              => window_count <= (end_time - start_time + WindowSeconds - 1)
                                     \div WindowSeconds)
    /\ (pc \in InTry) ~> Returned

\* the last of two windows is over, the first one cut short by an error,
\* and nobody asked for a stop
C35_Witness ==
    /\ pc = "window_check"
    /\ current_time = end_time
    /\ window_count = 2
    /\ faults > 0
    /\ now < end_time
    /\ is_running

\* the sum of the counts of activity_breakdown
BreakdownTotal ==
    SumSeq([i \in 1..Len(all_activities) |-> activity_breakdown[all_activities[i]]])

\* C36: at every boundary of the activity loop the analytics are consistent:
\* the counts of activity_breakdown sum to total_activities,
\* total_activities is the number of activities selected so far in the
\* session (read off the history of a tracker's first session while it
\* holds fewer than ten entries), and mistakes_made <= total_activities.
C36_AnalyticsConsistent ==
    (pc = "loop_check" /\ sessions = 1 /\ Len(activity_history) < HistoryLimit)
        => /\ BreakdownTotal = total_activities
           /\ total_activities = Len(activity_history)
           /\ mistakes_made <= total_activities

\* C37: after any number of adaptive_learning steps mistake_frequency is a
\* probability, between 0 and 1, and timing_jitter_base is positive.
C37_TraitsStayValid ==
    /\ 0 <= mistake_frequency /\ mistake_frequency <= 1000
    /\ timing_jitter_base > 0

\* every listener thread that was started has returned
ListenersDone == \A i \in 1..Len(listener) : listener[i] = "done"

\* C38: the keyboard listener terminates after the session stops: once
\* is_running is false, whoever cleared it, every listener thread leaves its
\* polling loop and its second loop and returns.
C38_ListenerReturns ==
    (listener # <<>> /\ ~is_running) ~> ListenersDone

\* the listener has returned after a stop it did not request itself: the
\* kill switch was found while the listener was in its second loop
C38_Witness ==
    /\ listener # <<>> /\ ListenersDone
    /\ ~is_running
    /\ kill_switch_log # <<>>
    /\ pc \in InTry

\* C3: the chosen activities never hold the same category more than
\* pattern_detection_threshold (3) times in a row: every 4 consecutive
\* entries of the history contain a category change.
C3_NoFourInARow ==
    \A i \in 1..(Len(activity_history) - pattern_detection_threshold) :
        \E j \in 1..pattern_detection_threshold :
            activity_history[i + j] # activity_history[i]

\* a run of exactly three was cut by a forced substitute
C3_Witness ==
    LET n == Len(activity_history)
    IN  /\ n >= 4
        /\ activity_history[n - 3] = activity_history[n - 2]
        /\ activity_history[n - 2] = activity_history[n - 1]
        /\ activity_history[n - 1] # activity_history[n]
        /\ repetition_count >= pattern_detection_threshold

\* C4: after every sequence of update_human_state calls focus_level lies
\* in [0.3, 1.0].
C4_FocusInRange == 300 <= focus_level /\ focus_level <= 1000

\* C5: after every sequence of update_human_state calls, activities and
\* micro-breaks, fatigue_level lies in [0, 1].
C5_FatigueInRange == 0 <= fatigue_level /\ fatigue_level <= 1000

\* the clamp at 1.0 is what holds the fatigue: base and activity fatigue
\* add up to more than 1.0
C5_Witness ==
    /\ fatigue_level = 1000
    /\ BaseFatigue(now) + consecutive_active_minutes * 20 > 1000

\* C6: once error_count reaches max_errors, is_running becomes false, no
\* further window, minute or activity is started, and is_running does not
\* become true again for the rest of that start_tracking call.
C6_StopByErrors ==
    [][/\ (error_count' # error_count /\ error_count' >= max_errors) => ~is_running'
       /\ (error_count >= max_errors /\ ~is_running /\ pc # "idle")
          => /\ ~is_running'
             /\ window_count' <= window_count
             /\ (pc = "window_check" => pc' \in {pc, "stop"})
             /\ (pc = "minute_check" => pc' \in {pc, "window_end", "stop"} /\ now' = now
                                        /\ minute_num' <= minute_num)
             /\ (pc' = "loop_body" => pc = "loop_body")
             /\ (pc # "loop_body" => activity_history' = activity_history)
      ]_vars

\* a failing effector call inside the activity loop has brought error_count
\* to max_errors and the session is still inside the minute
C6_Witness ==
    /\ pc \in {"after_activity", "loop_check", "minute_finish"}
    /\ faults > 0
    /\ error_count = max_errors
    /\ ~is_running

C8_NoActivityAfterStop ==
    [][(~is_running /\ pc \in InTry)
          => /\ (pc' = "loop_body" => pc = "loop_body")
             /\ (pc # "loop_body"
                    => /\ activity_history' = activity_history
                       /\ last_activity_type' = last_activity_type
                       /\ activities_performed' <= activities_performed)
             /\ (pc = "minute_check" => pc' # "loop_check" /\ now' = now
                                        /\ minute_num' <= minute_num)
             /\ (pc = "window_check" => pc' # "minute_check")
             /\ window_count' <= window_count
      ]_vars

\* the listener stopped the session between the loop condition and the
\* selection: the iteration already past the condition has run
C8_Witness ==
    /\ pc = "after_activity"
    /\ ~is_running
    /\ error_count < max_errors
    /\ ~kill_switch_file
    /\ activity_start = now
    /\ activities_performed > 0

\* C9: when the activity loop is left because is_running was set to false,
\* the sleep that pads the minute to its boundary is skipped.
C9_PaddingSkipped ==
    [][(/\ pc = "minute_finish"
        /\ ~is_running
        /\ seconds_used < max_active_seconds
        /\ now < minute_end
        /\ activities_performed < target_activities
        /\ pc' = "minute_check")
          => now' = now
      ]_vars

\* C10: in every state in which is_running is true, error_count <=
\* max_errors, repeated start_tracking calls on one tracker included.
C10_ErrorCountBounded == is_running => error_count <= max_errors

===========================================================================
